---- MODULE Spec2Model ----
(***************************************************************************)
(* A model of pycheribuild/projects/run_fvp.py (InstallMorelloFVP and      *)
(* LaunchFVPBase) and of pycheribuild/projects/cross/newlib_baremetal.py   *)
(* (BuildNewlibBaremetal.configure).                                       *)
(*                                                                         *)
(* Every call the projects make on their collaborators (run_cmd, fatal,    *)
(* warning, clean_directory, popen, ...) is appended to `log` together     *)
(* with the value ARMLMD_LICENSE_FILE has at that moment, so the order,    *)
(* the arguments and the environment of the calls are part of the state.   *)
(* Strings are TLA+ strings; Python's `+` on strings and lists is \o.      *)
(***************************************************************************)
EXTENDS Integers, Sequences, FiniteSets, TLC

VARIABLES
    pc,                     \* position of the running method
    log,                    \* calls made so far: <<[kind, args, env]>>
    \* ---- options and surroundings, fixed during a run
    pretend,                \* self.config.pretend (fatal() returns when set)
    use_docker_container,   \* InstallMorelloFVP.use_docker_container
    installer_path,         \* the installer-path option, None when unset
    installer_is_file,      \* installer_path.is_file()
    td_files,               \* the names td lists once the archive is unpacked
    i_agree_to_the_contained_eula,
    skip_update,            \* self.config.skip_update
    clean,                  \* self.config.clean
    IS_MAC,                 \* OSInfo.IS_MAC
    DISPLAY,                \* os.getenv("DISPLAY"), None when unset
    rev_source,             \* [ok, stdout]: what reading the FVP rev file gives
    memtotal_out,           \* [ok, stdout]: docker run ... grep MemTotal: /proc/meminfo
    missing_file,           \* the `what` of the one file ensure_file_exists misses, or None
    firmware_exists,        \* LaunchFVPBase.firmware_path.exists()
    remote_disk_image_path, \* the remote-disk-image-path option, None when unset, "" when empty
    use_architectureal_fvp, \* the use-architectural-fvp option
    arch_model_is_dir,      \* arch_model_path.is_dir()
    ssh_port,               \* LaunchFVPBase.ssh_port
    \* ---- InstallMorelloFVP.process
    installer_sh,           \* local
    eula_args,              \* local
    \* ---- InstallMorelloFVP.execute_fvp
    call,                   \* the arguments execute_fvp was called with (ssh_port: <<>> is
                            \* None, <<p>> the port p)
    fvp_revision,           \* cached_property: [set, value]
    docker_memory_size,     \* cached_property: [set, value], value in KiB
    base_cmd,               \* local
    socat,                  \* the socat helper: "none", "running", "killed"
    try_result,             \* how the body of the try statement ended
    run_tests_pc,           \* InstallMorelloFVP.run_tests: "first" and "second" in its two
                            \* calls of execute_fvp, "none" for any other caller
    \* ---- LaunchFVPBase.process
    license_server,         \* the license-server option, None when unset, "" when empty
    env_license,            \* os.environ["ARMLMD_LICENSE_FILE"], None when unset
    old_environ,            \* what set_env keeps of ARMLMD_LICENSE_FILE to put it back
    model_params,           \* local
    n_board,                \* how many parameters add_board_params has added
    fvp_args,               \* local
    \* ---- BuildNewlibBaremetal
    configureArgs           \* self.configureArgs

inputs == <<pretend, use_docker_container, installer_path, installer_is_file, td_files,
            i_agree_to_the_contained_eula, skip_update, clean, IS_MAC, DISPLAY,
            rev_source, memtotal_out, missing_file, firmware_exists,
            remote_disk_image_path, use_architectureal_fvp, arch_model_is_dir, ssh_port>>
installLocals == <<installer_sh, eula_args>>
caches == <<fvp_revision, docker_memory_size>>
fvpLocals == <<call, base_cmd, socat, try_result, run_tests_pc>>
launchLocals == <<license_server, env_license, old_environ, model_params, n_board, fvp_args>>

vars == <<pc, log, inputs, installLocals, caches, fvpLocals, launchLocals, configureArgs>>

----------------------------------------------------------------------------
(* Python values and pathlib *)

None == "<None>"

Max(S) == CHOOSE x \in S : \A y \in S : y <= x
Min(S) == CHOOSE x \in S : \A y \in S : x <= y
MaxOrZero(S) == IF S = {} THEN 0 ELSE Max(S)
MinOrZero(S) == IF S = {} THEN 0 ELSE Min(S)

\* str.rfind(c) + 1: the last position of the character c in s, 0 when absent
LastIndexOf(s, c) == MaxOrZero({i \in 1..Len(s) : SubSeq(s, i, i) = c})

\* str.find(c) + 1: the first position of the character c in s, 0 when absent
FirstIndexOf(s, c) == MinOrZero({i \in 1..Len(s) : SubSeq(s, i, i) = c})

\* str.startswith
StartsWith(s, prefix) ==
    Len(s) >= Len(prefix) /\ SubSeq(s, 1, Len(prefix)) = prefix

\* str.endswith
EndsWith(s, suffix) ==
    Len(s) >= Len(suffix) /\ SubSeq(s, Len(s) - Len(suffix) + 1, Len(s)) = suffix

\* PurePosixPath.root: "/", or "//" for exactly two leading slashes, else ""
PathRoot(s) ==
    IF StartsWith(s, "//") /\ ~StartsWith(s, "///") THEN "//"
    ELSE IF StartsWith(s, "/") THEN "/"
    ELSE ""

\* one piece between separators as a list of components: the empty piece and
\* "." are no components
Component(piece) == IF piece \in {"", "."} THEN <<>> ELSE <<piece>>

\* the components of a path: the pieces between separators, without the empty
\* ones and without "."; PartsAt is given the position of the first separator
RECURSIVE PathParts(_)
PartsAt(s, i) ==
    IF i = 0 THEN Component(s)
    ELSE Component(SubSeq(s, 1, i - 1)) \o PathParts(SubSeq(s, i + 1, Len(s)))
PathParts(s) == PartsAt(s, FirstIndexOf(s, "/"))

\* "/".join(parts)
RECURSIVE JoinParts(_)
JoinParts(parts) ==
    IF parts = <<>> THEN ""
    ELSE IF Len(parts) = 1 THEN parts[1]
    ELSE parts[1] \o "/" \o JoinParts(Tail(parts))

\* the text of a path with the given root and components; the empty path is "."
Rooted(root, body) == IF root = "" /\ body = "" THEN "." ELSE root \o body

\* str(Path(s)): repeated and trailing separators and "." components are dropped
Path(s) == Rooted(PathRoot(s), JoinParts(PathParts(s)))

\* PurePath.name: the final path component, "" for the root and for "."
LastPart(parts) == IF parts = <<>> THEN "" ELSE parts[Len(parts)]
PathName(p) == LastPart(PathParts(p))

\* PurePath.suffix: the last dot-suffix of the final component, "" if none;
\* SuffixAt is given the position of the last dot of the name
SuffixAt(n, i) == IF i <= 1 \/ i = Len(n) THEN "" ELSE SubSeq(n, i, Len(n))
NameSuffix(n) == SuffixAt(n, LastIndexOf(n, "."))
PathSuffix(p) == NameSuffix(PathName(p))

\* PurePath.parent: the path without its final component; the root and "." are
\* their own parents
ButLast(parts) == IF parts = <<>> THEN <<>> ELSE SubSeq(parts, 1, Len(parts) - 1)
PathParent(p) == Rooted(PathRoot(p), JoinParts(ButLast(PathParts(p))))

\* Path(a, b) and a / b: an absolute b replaces a; JoinText is given str(Path(a))
JoinText(na, b) ==
    IF StartsWith(b, "/") \/ na = "." THEN b
    ELSE IF EndsWith(na, "/") THEN na \o b
    ELSE na \o "/" \o b
PathJoin(a, b) == Path(JoinText(Path(a), b))

\* fnmatch of a file name against the pattern "*.sh" (case-sensitive; pathlib
\* lets "*" match a leading dot and the empty string)
MatchesSh(name) == EndsWith(name, ".sh")

\* list(Path(dir).glob("*.sh")) for a directory holding `names`, in the order in
\* which the directory lists them
InDir(dir, matching) == [i \in 1..Len(matching) |-> PathJoin(dir, matching[i])]
GlobSh(dir, names) == InDir(dir, SelectSeq(names, MatchesSh))

\* str.isspace for the characters up to U+00FF: space, tab, line feed, carriage
\* return, form feed, then vertical tab, the separators U+001C to U+001F, next
\* line (U+0085) and no-break space (U+00A0), written as the characters themselves
IsSpace(c) == c \in {" ", "\t", "\n", "\r", "\f", "", "", "", "", "", "", " "}

\* str.strip(): Between is given the positions of the characters that are kept
Between(s, I) == IF I = {} THEN "" ELSE SubSeq(s, Min(I), Max(I))
Strip(s) == Between(s, {i \in 1..Len(s) : ~IsSpace(SubSeq(s, i, i))})

\* str.split(): the maximal runs of non-whitespace characters, in order;
\* SplitAt is given a stripped string and the position of its first whitespace
RECURSIVE Split(_)
SplitAt(t, e) ==
    IF t = "" THEN <<>>
    ELSE IF e = 0 THEN <<t>>
    ELSE <<SubSeq(t, 1, e - 1)>> \o Split(SubSeq(t, e, Len(t)))
FirstSpace(t) == MinOrZero({i \in 1..Len(t) : IsSpace(SubSeq(t, i, i))})
SplitStripped(t) == SplitAt(t, FirstSpace(t))
Split(s) == SplitStripped(Strip(s))

Digits == <<"0", "1", "2", "3", "4", "5", "6", "7", "8", "9">>
IsDigit(c) == \E d \in 1..10 : Digits[d] = c
DigitValue(c) == (CHOOSE d \in 1..10 : Digits[d] = c) - 1

\* the value of a string of decimal digits; grouping underscores are skipped
RECURSIVE DecimalValue(_)
ShiftIn(value, c) == IF c = "_" THEN value ELSE 10 * value + DigitValue(c)
DecimalValue(s) ==
    IF s = "" THEN 0
    ELSE ShiftIn(DecimalValue(SubSeq(s, 1, Len(s) - 1)), SubSeq(s, Len(s), Len(s)))

\* the digits int() accepts: decimal digits, where single underscores may
\* stand between two digits
IsDecimal(d) ==
    /\ d # ""
    /\ \A i \in 1..Len(d) :
        \/ IsDigit(SubSeq(d, i, i))
        \/ /\ SubSeq(d, i, i) = "_"
           /\ 1 < i /\ i < Len(d)
           /\ IsDigit(SubSeq(d, i - 1, i - 1)) /\ IsDigit(SubSeq(d, i + 1, i + 1))

\* the whitespace int() ignores around the number: that of str.isspace without
\* the separators U+001C to U+001F
IsIntSpace(c) == IsSpace(c) /\ c \notin {"", "", "", ""}
IntStrip(s) == Between(s, {i \in 1..Len(s) : ~IsIntSpace(SubSeq(s, i, i))})

\* int(s): surrounding whitespace is ignored, then an optional sign and the
\* digits; anything else is a ValueError (ok = FALSE).  Values are TLC's 32-bit
\* integers: texts of magnitude 2^31 and more are outside the model.
IntOf(ok, sign, d) == [ok |-> ok, value |-> IF ok THEN sign * DecimalValue(d) ELSE 0]
ParseUnsigned(sign, d) == IntOf(IsDecimal(d), sign, d)
ParseSigned(t) ==
    IF StartsWith(t, "-") THEN ParseUnsigned(0 - 1, SubSeq(t, 2, Len(t)))
    ELSE IF StartsWith(t, "+") THEN ParseUnsigned(1, SubSeq(t, 2, Len(t)))
    ELSE ParseUnsigned(1, t)
ParseInt(s) == ParseSigned(IntStrip(s))

----------------------------------------------------------------------------
(* The collaborators of a project.  Each call is recorded in the log. *)

Call(kind, args) == [kind |-> kind, args |-> args, env |-> env_license]

\* self.fatal(...): reports the error; the run goes on only under --pretend,
\* otherwise the program exits.  `next` is the position after the call.
AfterFatal(next) == IF pretend THEN next ELSE "exited"

\* setup_config_options() of InstallMorelloFVP, lines 58-65: the attribute each
\* option is declared as and the name it is declared with
InstallMorelloFVP_options ==
    [installer_path |-> "installer-path",
     use_docker_container |-> "use-docker-container",
     i_agree_to_the_contained_eula |-> "agree-to-the-contained-eula"]

\* setup_config_options() of LaunchFVPBase, lines 225-241
LaunchFVPBase_options ==
    [firmware_path |-> "firmware-path",
     remote_disk_image_path |-> "remote-disk-image-path",
     ssh_port |-> "ssh-port",
     use_architectureal_fvp |-> "use-architectural-fvp",
     license_server |-> "license-server",
     arch_model_path |-> "simulator-path"]

\* cls.get_config_option_name(option): the name of the option the class declares
\* as its attribute `option`, as the class declared it; None stands for the
\* failure of the lookup (an exception) when the class has no such attribute.
get_config_option_name(options, option) ==
    IF option \in DOMAIN options THEN options[option] ELSE None

\* with set_env(ARMLMD_LICENSE_FILE=value): entering the block keeps the value
\* the variable had and sets the new one ...
set_env_enter(value) ==
    /\ old_environ' = env_license
    /\ env_license' = value

\* ... and leaving it, by return or by an exception, puts the old value back
set_env_exit ==
    /\ env_license' = old_environ
    /\ old_environ' = None

\* run_cmd(...) either returns or raises (the command failed); a command that
\* is only printed under --pretend cannot fail.
RunCmdOutcomes(runs_in_pretend) ==
    IF pretend /\ ~runs_in_pretend THEN {"ok"} ELSE {"ok", "raised"}

\* self.ensure_file_exists(what, path): a fatal error when the file is missing;
\* the path is returned either way.  The calls it adds to the log.
ensure_file_exists(what, path) ==
    IF what = missing_file THEN <<Call("fatal", <<what, "not found:", path>>)>> ELSE <<>>

\* TRUE when one of the calls is a fatal error
HasFatal(calls) == \E i \in 1..Len(calls) : calls[i].kind = "fatal"

----------------------------------------------------------------------------
(* InstallMorelloFVP *)

morello_sdk_dir == "/sdk"
container_name == "morello-fvp"
td == "/tmp/td"

\* InstallMorelloFVP.install_dir
install_dir == PathJoin(morello_sdk_dir, "FVP_Morello")

\* process(), line 83: the installer assumed when the archive holds no *.sh
default_installer_sh == PathJoin(td, "FVP_Morello.sh")

\* process(), line 104: the Dockerfile written to td
dockerfile == PathJoin(td, "Dockerfile")

\* ProcessCheck without the test of installer_path.is_file() (lines 76-77)
ProcessCheckNoFileTest ==
    /\ pc = "process"
    /\ IF installer_path = None
       THEN /\ log' = Append(log, Call("fatal", <<"Path to installer not known, set the",
                                                   "--" \o get_config_option_name(InstallMorelloFVP_options, "installer_path"),
                                                   "config option!">>))
            /\ pc' = AfterFatal("returned")
       ELSE /\ log' = log
            /\ pc' = "extract"
    /\ UNCHANGED <<inputs, installLocals, caches, fvpLocals, launchLocals, configureArgs>>

\* process(), lines 72-77: the two checks of installer_path.  After the first
\* fatal() the method returns; after the second it does not.
ProcessCheck ==
    /\ pc = "process"
    /\ IF installer_path = None
       THEN /\ log' = Append(log, Call("fatal", <<"Path to installer not known, set the",
                                                   "--" \o get_config_option_name(InstallMorelloFVP_options, "installer_path"),
                                                   "config option!">>))
            /\ pc' = AfterFatal("returned")
       ELSE IF ~installer_is_file
       THEN /\ log' = Append(log, Call("fatal", <<"Specified path to installer does not exist:",
                                                   installer_path>>))
            /\ pc' = AfterFatal("extract")
       ELSE /\ log' = log
            /\ pc' = "extract"
    /\ UNCHANGED <<inputs, installLocals, caches, fvpLocals, launchLocals, configureArgs>>

\* process(), lines 81-92: unpack a .tgz installer, pick installer_sh, warn when
\* it is no .sh file, choose the EULA arguments.
ProcessExtract ==
    /\ pc = "extract"
    /\ \E outcome \in RunCmdOutcomes(FALSE) :
        LET is_tgz == PathSuffix(installer_path) = ".tgz"
            tar == IF is_tgz
                   THEN <<Call("run_cmd", <<"tar", "xf", installer_path, "-C", td>>)>>
                   ELSE <<>>
            found == GlobSh(td, td_files)
            sh == IF is_tgz
                  THEN (IF found # <<>> THEN found
                        ELSE <<default_installer_sh>>)[1]
                  ELSE installer_path
            warn == IF PathSuffix(sh) # ".sh"
                    THEN <<Call("warning", <<"Incorrect path to installer? Expected installer to be a .sh file:", sh>>)>>
                    ELSE <<>>
        IN  IF is_tgz /\ outcome = "raised"
            THEN /\ log' = log \o tar
                 /\ pc' = "raised"
                 /\ UNCHANGED <<installer_sh, eula_args>>
            ELSE /\ outcome = "ok"
                 /\ log' = log \o tar \o warn
                 /\ installer_sh' = sh
                 /\ eula_args' = IF i_agree_to_the_contained_eula
                                 THEN <<"--i-agree-to-the-contained-eula", "--no-interactive">>
                                 ELSE <<"--force">>
                 /\ pc' = "clean"
    /\ UNCHANGED <<inputs, caches, fvpLocals, launchLocals, configureArgs>>

\* process(), line 95: always delete the old FVP files
ProcessClean ==
    /\ pc = "clean"
    /\ log' = Append(log, Call("clean_directory", <<install_dir>>))
    /\ pc' = "install"
    /\ UNCHANGED <<inputs, installLocals, caches, fvpLocals, launchLocals, configureArgs>>

\* process(), lines 97-98: run the installer on the host, also when docker is used
ProcessRunInstaller ==
    /\ pc = "install"
    /\ \E outcome \in RunCmdOutcomes(FALSE) :
        /\ log' = Append(log, Call("run_cmd",
                                   <<installer_sh, "--destination", install_dir>> \o eula_args))
        /\ pc' = IF outcome = "raised" THEN "raised"
                 ELSE IF use_docker_container THEN "docker_build" ELSE "returned"
    /\ UNCHANGED <<inputs, installLocals, caches, fvpLocals, launchLocals, configureArgs>>

\* BuildFlags with the test of skip_update inverted
BuildFlagsInverted ==
    (IF skip_update THEN <<"--pull">> ELSE <<>>) \o (IF clean THEN <<"--no-cache">> ELSE <<>>)

\* process(), lines 115-119: the flags of docker build
BuildFlags ==
    (IF ~skip_update THEN <<"--pull">> ELSE <<>>) \o (IF clean THEN <<"--no-cache">> ELSE <<>>)

\* process(), lines 99-121: stage the installer, write the Dockerfile, docker build
ProcessDockerBuild ==
    /\ pc = "docker_build"
    /\ \E outcome \in RunCmdOutcomes(FALSE) :
        LET copy == IF PathParent(installer_sh) # Path(td)
                    THEN <<Call("install_file",
                                <<installer_sh, PathJoin(td, PathName(installer_sh))>>)>>
                    ELSE <<>>
        IN  /\ log' = log \o copy
                      \o <<Call("write_file", <<dockerfile, PathName(installer_sh)>>),
                           Call("run_cmd", <<"docker", "build">> \o BuildFlags
                                           \o <<"-t", container_name, ".">>)>>
            /\ pc' = IF outcome = "raised" THEN "raised" ELSE "returned"
    /\ UNCHANGED <<inputs, installLocals, caches, fvpLocals, launchLocals, configureArgs>>

----------------------------------------------------------------------------
(* InstallMorelloFVP.execute_fvp and the cached properties it reads *)

latest_known_fvp == 345
min_ram_mb == 4900
warn_ram_mb == 7900
\* Memory sizes are counted in KiB, the unit of /proc/meminfo: the code's byte
\* counts are 1024 times the model's numbers (every size the code compares is a
\* multiple of 1024, and the byte counts exceed TLC's 32-bit integers).
KiBPerMiB == 1024
plugin_revision == 312

model_relpath == "models/Linux64_GCC-6.4/FVP_Morello"
plugin_path == "plugins/Linux64_GCC-6.4/MorelloPlugin.so"
revpath == "sw/ARM_Fast_Models_FVP_Morello/rev"

\* the paths execute_fvp, _plugin_args and fvp_revision build from them
docker_model == PathJoin("/opt/FVP_Morello", model_relpath)
host_model == PathJoin(install_dir, model_relpath)
docker_plugin == PathJoin("/opt/FVP_Morello", plugin_path)
host_plugin == PathJoin(install_dir, plugin_path)
host_rev_file == PathJoin(install_dir, revpath)

\* fvp_revision (cached_property), lines 176-190: [value, calls].  Every failure
\* of the command, of the read or of int() is caught and gives latest_known_fvp.
FvpRevisionEval ==
    IF fvp_revision.set THEN [value |-> fvp_revision.value, calls |-> <<>>]
    ELSE LET read == IF use_docker_container
                     THEN Call("run_cmd", <<"docker", "run", "-it", "--rm", container_name, "cat",
                                            "/opt/FVP_Morello/" \o revpath>>)
                     ELSE Call("read_file", <<host_rev_file>>)
             rev == IF use_docker_container THEN ParseInt(Strip(rev_source.stdout))
                    ELSE ParseInt(rev_source.stdout)
         IN  IF rev_source.ok /\ rev.ok
             THEN [value |-> rev.value, calls |-> <<read>>]
             ELSE [value |-> latest_known_fvp,
                   calls |-> <<read, Call("warning", <<"Could not determine FVP revision, assuming latest known (",
                                                        ToString(latest_known_fvp), "): ">>)>>]

\* docker_memory_size (cached_property), lines 192-202: [raised, value, calls] with
\* the value in KiB.  A failing run_cmd is not caught; a missing or malformed
\* second word of the output is, and gives 0.
DockerMemoryEval ==
    IF docker_memory_size.set
    THEN [raised |-> FALSE, value |-> docker_memory_size.value, calls |-> <<>>]
    ELSE LET run == Call("run_cmd", <<"docker", "run", "-it", "--rm", container_name, "grep",
                                      "MemTotal:", "/proc/meminfo">>)
             words == Split(memtotal_out.stdout)
             kb == IF Len(words) >= 2 THEN ParseInt(words[2]) ELSE [ok |-> FALSE, value |-> 0]
         IN  IF ~memtotal_out.ok THEN [raised |-> TRUE, value |-> 0, calls |-> <<run>>]
             ELSE IF kb.ok THEN [raised |-> FALSE, value |-> kb.value, calls |-> <<run>>]
             ELSE [raised |-> FALSE, value |-> 0,
                   calls |-> <<run, Call("warning", <<"Could not determine memory available to docker container:">>)>>]

\* MemoryCheck with <= for < in both comparisons
MemoryCheckInclusive(m) ==
    IF m <= min_ram_mb * KiBPerMiB
    THEN <<Call("fatal", <<"Docker container has less than ", ToString(min_ram_mb), "MB of RAM (",
                           ToString(m \div KiBPerMiB), "MB), this is not enough to run the FVP!">>)>>
    ELSE IF m <= warn_ram_mb * KiBPerMiB
    THEN <<Call("warning", <<"Docker container has less than ", ToString(warn_ram_mb), "MB of RAM (",
                             ToString(m \div KiBPerMiB), "MB), this may not enough to run the FVP">>)>>
    ELSE <<>>

\* execute_fvp(), lines 146-155: the check of the container's memory, m in KiB
MemoryCheck(m) ==
    IF m < min_ram_mb * KiBPerMiB
    THEN <<Call("fatal", <<"Docker container has less than ", ToString(min_ram_mb), "MB of RAM (",
                           ToString(m \div KiBPerMiB), "MB), this is not enough to run the FVP!">>)>>
    ELSE IF m < warn_ram_mb * KiBPerMiB
    THEN <<Call("warning", <<"Docker container has less than ", ToString(warn_ram_mb), "MB of RAM (",
                             ToString(m \div KiBPerMiB), "MB), this may not enough to run the FVP">>)>>
    ELSE <<>>

\* BaseCmd with the X11 option added after the container and the model
BaseCmdDisplayLast ==
    IF use_docker_container
    THEN <<"docker", "run", "-it", "--rm">>
         \o (IF call.expose_telnet_ports THEN <<"-p", "5000-5007:5000-5007">> ELSE <<>>)
         \o (IF call.ssh_port # <<>>
             THEN <<"-p", ToString(call.ssh_port[1]) \o ":" \o ToString(call.ssh_port[1])>>
             ELSE <<>>)
         \o (IF call.disk_image_path # None
             THEN <<"-v", call.disk_image_path \o ":" \o call.disk_image_path>> ELSE <<>>)
         \o (IF call.firmware_path # None
             THEN <<"-v", call.firmware_path \o ":" \o call.firmware_path>> ELSE <<>>)
         \o <<container_name, docker_model>>
         \o (IF call.x11 THEN <<"-e", "DISPLAY=host.docker.internal:0">> ELSE <<>>)
    ELSE <<host_model>>

\* execute_fvp(), lines 134-163: base_cmd, without the memory check
BaseCmd ==
    IF use_docker_container
    THEN <<"docker", "run", "-it", "--rm">>
         \o (IF call.expose_telnet_ports THEN <<"-p", "5000-5007:5000-5007">> ELSE <<>>)
         \o (IF call.ssh_port # <<>>
             THEN <<"-p", ToString(call.ssh_port[1]) \o ":" \o ToString(call.ssh_port[1])>>
             ELSE <<>>)
         \o (IF call.disk_image_path # None
             THEN <<"-v", call.disk_image_path \o ":" \o call.disk_image_path>> ELSE <<>>)
         \o (IF call.firmware_path # None
             THEN <<"-v", call.firmware_path \o ":" \o call.firmware_path>> ELSE <<>>)
         \o (IF call.x11 THEN <<"-e", "DISPLAY=host.docker.internal:0">> ELSE <<>>)
         \o <<container_name, docker_model>>
    ELSE <<host_model>>

\* execute_fvp(), lines 133-163
ExecuteBuildCmd ==
    /\ pc = "execute_fvp"
    /\ LET checks == use_docker_container /\ call.disk_image_path # None
           mem == DockerMemoryEval
           calls == IF ~checks THEN <<>>
                    ELSE IF mem.raised THEN mem.calls
                    ELSE mem.calls \o MemoryCheck(mem.value)
       IN  /\ log' = log \o calls
           /\ docker_memory_size' = IF checks /\ ~mem.raised
                                    THEN [set |-> TRUE, value |-> mem.value]
                                    ELSE docker_memory_size
           /\ IF checks /\ mem.raised
              THEN pc' = "raised" /\ UNCHANGED base_cmd
              ELSE IF HasFatal(calls) /\ ~pretend
              THEN pc' = "exited" /\ UNCHANGED base_cmd
              ELSE pc' = "socat_check" /\ base_cmd' = BaseCmd
    /\ UNCHANGED <<inputs, installLocals, fvp_revision, call, socat, try_result, run_tests_pc,
                   launchLocals, configureArgs>>

\* _plugin_args with > for >= in the test of the revision
PluginArgsEvalStrict ==
    LET rev == FvpRevisionEval
        host == host_plugin
    IN  IF rev.value > plugin_revision
        THEN [args |-> <<>>, calls |-> rev.calls, rev |-> rev.value]
        ELSE IF use_docker_container
        THEN [args |-> <<"--plugin", docker_plugin>>,
              calls |-> rev.calls, rev |-> rev.value]
        ELSE [args |-> <<"--plugin", host>>,
              calls |-> rev.calls \o ensure_file_exists("Morello FVP plugin", host),
              rev |-> rev.value]

\* _plugin_args(), lines 123-129: [args, calls, rev]
PluginArgsEval ==
    LET rev == FvpRevisionEval
        host == host_plugin
    IN  IF rev.value >= plugin_revision
        THEN [args |-> <<>>, calls |-> rev.calls, rev |-> rev.value]
        ELSE IF use_docker_container
        THEN [args |-> <<"--plugin", docker_plugin>>,
              calls |-> rev.calls, rev |-> rev.value]
        ELSE [args |-> <<"--plugin", host>>,
              calls |-> rev.calls \o ensure_file_exists("Morello FVP plugin", host),
              rev |-> rev.value]

\* self.run_cmd(base_cmd + self._plugin_args() + args, **kwargs), lines 169 and 174:
\* ends "returned", "raised" (the command failed) or "exited" (a fatal error)
RunFvpCommand(outcome) ==
    LET plugin == PluginArgsEval
    IN  /\ fvp_revision' = [set |-> TRUE, value |-> plugin.rev]
        /\ IF HasFatal(plugin.calls) /\ ~pretend
           THEN /\ outcome = "exited"
                /\ log' = log \o plugin.calls
           ELSE /\ outcome \in {IF o = "ok" THEN "returned" ELSE o : o \in RunCmdOutcomes(FALSE)}
                /\ log' = log \o plugin.calls
                          \o <<Call("run_cmd", base_cmd \o plugin.args \o call.args)>>

\* line 164: X11 through docker on macOS needs socat
NeedsSocat ==
    use_docker_container /\ call.x11 /\ IS_MAC /\ DISPLAY \notin {None, ""}

\* execute_fvp(), lines 164-167: start socat
ExecuteStartSocat ==
    /\ pc = "socat_check"
    /\ NeedsSocat
    /\ log' = Append(log, Call("popen", <<"socat", "TCP-LISTEN:6000,reuseaddr,fork",
                                          "UNIX-CLIENT:\"" \o DISPLAY \o "\"">>))
    /\ \E started \in BOOLEAN :
        IF started THEN socat' = "running" /\ pc' = "try"
        ELSE UNCHANGED socat /\ pc' = "raised"
    /\ UNCHANGED <<inputs, installLocals, caches, call, base_cmd, try_result, run_tests_pc,
                   launchLocals, configureArgs>>

\* ExecuteRunInTry without the try statement: an exception leaves at once
ExecuteRunUnprotected ==
    /\ pc = "try"
    /\ \E outcome \in {"returned", "raised", "exited"} :
        /\ RunFvpCommand(outcome)
        /\ try_result' = outcome
        /\ pc' = IF outcome = "returned" THEN "finally" ELSE outcome
    /\ UNCHANGED <<inputs, installLocals, docker_memory_size, call, base_cmd, socat, run_tests_pc,
                   launchLocals, configureArgs>>

\* execute_fvp(), lines 168-169: the body of the try statement
ExecuteRunInTry ==
    /\ pc = "try"
    /\ \E outcome \in {"returned", "raised", "exited"} :
        /\ RunFvpCommand(outcome)
        /\ try_result' = outcome
    /\ pc' = "finally"
    /\ UNCHANGED <<inputs, installLocals, docker_memory_size, call, base_cmd, socat, run_tests_pc,
                   launchLocals, configureArgs>>

\* execute_fvp(), lines 170-172: the finally clause, then the pending outcome
ExecuteFinally ==
    /\ pc = "finally"
    /\ log' = log \o <<Call("socat.terminate", <<>>), Call("socat.kill", <<>>)>>
    /\ socat' = "killed"
    /\ pc' = try_result
    /\ UNCHANGED <<inputs, installLocals, caches, call, base_cmd, try_result, run_tests_pc,
                   launchLocals, configureArgs>>

\* execute_fvp(), lines 173-174: the run without socat
ExecuteRun ==
    /\ pc = "socat_check"
    /\ ~NeedsSocat
    /\ \E outcome \in {"returned", "raised", "exited"} :
        /\ RunFvpCommand(outcome)
        /\ pc' = outcome
    /\ UNCHANGED <<inputs, installLocals, docker_memory_size, call, base_cmd, socat, run_tests_pc,
                   try_result, launchLocals, configureArgs>>

\* run_tests(), lines 204-206: the two calls it makes, both without X11 and
\* without telnet ports
run_tests_calls ==
    <<[args |-> <<"--help">>, disk_image_path |-> None, firmware_path |-> None,
       x11 |-> FALSE, expose_telnet_ports |-> FALSE, ssh_port |-> <<>>],
      [args |-> <<"--cyclelimit", "1000">>, disk_image_path |-> None, firmware_path |-> None,
       x11 |-> FALSE, expose_telnet_ports |-> FALSE, ssh_port |-> <<>>]>>

\* run_tests(), line 206: the first call has returned, the second starts with
\* fresh locals and with what the first call has cached
RunTestsSecondCall ==
    /\ pc = "returned"
    /\ run_tests_pc = "first"
    /\ run_tests_pc' = "second"
    /\ call' = run_tests_calls[2]
    /\ base_cmd' = <<>>
    /\ socat' = "none"
    /\ try_result' = None
    /\ pc' = "execute_fvp"
    /\ UNCHANGED <<log, inputs, installLocals, caches, launchLocals, configureArgs>>

----------------------------------------------------------------------------
(* LaunchFVPBase.process *)

virtio_rng_revision == 255
min_fvp_revision == 312
use_virtio_net == FALSE

\* Paths that other projects provide
disk_image_path == "/out/cheribsd-morello.img"
firmware_path == PathJoin(morello_sdk_dir, "firmware/morello-fvp")
arch_model_path == "/usr/local/FVP_Base_RevC-Rainier"
mcp_rom_bin == PathJoin(firmware_path, "mcp_romfw.bin")
scp_rom_bin == PathJoin(firmware_path, "scp_romfw.bin")
uefi_bin == PathJoin(firmware_path, "uefi.bin")
scp_ap_ram_firmware_image == PathJoin(firmware_path, "scp_fw.bin")
mcp_ram_firmware_image == PathJoin(firmware_path, "mcp_fw.bin")

\* process(), lines 303-310: the files of the architectural model
arch_sim_binary == PathJoin(arch_model_path, "models/Linux64_GCC-6.4/FVP_Base_RevC-Rainier")
arch_plugin == PathJoin(arch_model_path, "plugins/Linux64_GCC-6.4/MorelloPlugin.so")
bl1_bin == PathJoin(firmware_path, "bl1.bin")
fip_bin == PathJoin(firmware_path, "fip.bin")

\* process(), lines 351-354 and 378: the parents of the firmware files
uefi_bin_parent == PathParent(uefi_bin)
scp_ap_ram_firmware_image_parent == PathParent(scp_ap_ram_firmware_image)
scp_rom_bin_parent == PathParent(scp_rom_bin)

\* add_board_params(*params), lines 266-268
add_board_params(params) ==
    LET prefix == IF use_architectureal_fvp THEN "bp." ELSE "board."
    IN  [i \in 1..Len(params) |-> prefix \o params[i]]

\* add_hostbridge_params(*params), lines 270-273
add_hostbridge_params(params) ==
    LET prefix == (IF use_virtio_net THEN "virtio_net." ELSE "") \o "hostbridge."
    IN  add_board_params([i \in 1..Len(params) |-> prefix \o params[i]])

\* DashC with "-C" after each parameter instead of before it
DashCAfter(params) ==
    [i \in 1..(2 * Len(params)) |-> IF i % 2 = 0 THEN "-C" ELSE params[(i + 1) \div 2]]

\* [x for param in model_params for x in ("-C", param)], lines 319 and 340
DashC(params) ==
    [i \in 1..(2 * Len(params)) |-> IF i % 2 = 1 THEN "-C" ELSE params[i \div 2]]

\* process(), lines 250-252
LaunchCheckFirmware ==
    /\ pc = "launch"
    /\ IF ~firmware_exists
       THEN /\ log' = Append(log, Call("fatal", <<"Firmware path", firmware_path, " is invalid, set the",
                                                   "--" \o get_config_option_name(LaunchFVPBase_options, "firmware_path"),
                                                   "config option!">>))
            /\ pc' = AfterFatal("disk_image")
       ELSE /\ log' = log
            /\ pc' = "disk_image"
    /\ UNCHANGED <<inputs, installLocals, caches, fvpLocals, launchLocals, configureArgs>>

\* process(), lines 253-256
LaunchDiskImage ==
    /\ pc = "disk_image"
    /\ LET copy == IF remote_disk_image_path \notin {None, ""}
                   THEN <<Call("copy_remote_file", <<remote_disk_image_path, disk_image_path>>)>>
                   ELSE <<>>
           found == ensure_file_exists("disk image", disk_image_path)
       IN  /\ log' = log \o copy \o found
           /\ pc' = IF HasFatal(found) THEN AfterFatal("board_params") ELSE "board_params"
    /\ UNCHANGED <<inputs, installLocals, caches, fvpLocals, launchLocals, configureArgs>>

\* process(), lines 264-290
LaunchBoardParams ==
    /\ pc = "board_params"
    /\ LET board == (IF use_virtio_net THEN add_board_params(<<"virtio_net.enabled=1">>)
                     ELSE add_board_params(<<"smsc_91c111.enabled=1">>))
                    \o add_hostbridge_params(<<"userNetworking=true",
                                               "userNetPorts=" \o ToString(ssh_port) \o "=22",
                                               "interfaceName=ARM0">>)
                    \o add_board_params(<<"virtio_net.transport=legacy",
                                          "virtio_rng.transport=legacy",
                                          "virtioblockdevice.image_path=" \o disk_image_path>>)
       IN  /\ model_params' = board
           /\ n_board' = Len(board)
    /\ pc' = IF use_architectureal_fvp THEN "arch_checks" ELSE "nonarch_params"
    /\ UNCHANGED <<log, inputs, installLocals, caches, fvpLocals, license_server, env_license,
                   old_environ, fvp_args, configureArgs>>

\* process(), lines 292-300: the checks of the architectural FVP.  The message of
\* the second is built from get_config_option_name("simulator_path"); when that
\* lookup fails, its exception ends process() before fatal() is called.
LaunchArchChecks ==
    /\ pc = "arch_checks"
    /\ LET no_license == license_server \in {None, ""}
           lic == IF no_license
                  THEN <<Call("fatal", <<"License server info unknown, set the",
                                         "--" \o get_config_option_name(LaunchFVPBase_options, "license_server"),
                                         "config option!">>)>>
                  ELSE <<>>
           name == get_config_option_name(LaunchFVPBase_options, "simulator_path")
           dir == IF ~arch_model_is_dir /\ name # None
                  THEN <<Call("fatal", <<"FVP path", arch_model_path, "does not exist, set the",
                                         "--" \o name, "config option!">>)>>
                  ELSE <<>>
       IN  /\ license_server' = IF no_license THEN "unknown.license.server" ELSE license_server
           /\ IF no_license /\ ~pretend
              THEN log' = log \o lic /\ pc' = "exited"
              ELSE IF ~arch_model_is_dir /\ name = None
              THEN log' = log \o lic /\ pc' = "raised"
              ELSE /\ log' = log \o lic \o dir
                   /\ pc' = IF HasFatal(dir) THEN AfterFatal("arch_enter") ELSE "arch_enter"
    /\ UNCHANGED <<inputs, installLocals, caches, fvpLocals, env_license, old_environ,
                   model_params, n_board, fvp_args, configureArgs>>

\* process(), lines 302-319: enter set_env(ARMLMD_LICENSE_FILE=license_server),
\* find the model's files and build the arguments.  A fatal error that ends the
\* program leaves the block at once, so the environment is as it was before.
LaunchArchEnter ==
    /\ pc = "arch_enter"
    /\ LET found == ensure_file_exists("Model binary",
                        arch_sim_binary)
                    \o ensure_file_exists("Morello FVP plugin",
                        arch_plugin)
                    \o ensure_file_exists("bl1.bin firmware", bl1_bin)
                    \o ensure_file_exists("fip.bin firmware", fip_bin)
           params == model_params \o <<"pctl.startup=0.0.0.0",
                                       "bp.secure_memory=0",
                                       "cache_state_modelled=0",
                                       "cluster0.NUM_CORES=1",
                                       "bp.flashloader0.fname=" \o fip_bin,
                                       "bp.secureflashloader.fname=" \o bl1_bin>>
       IN  /\ log' = log \o [i \in 1..Len(found) |-> [found[i] EXCEPT !.env = license_server]]
           /\ IF HasFatal(found) /\ ~pretend
              THEN /\ pc' = "exited"
                   /\ UNCHANGED <<env_license, old_environ, model_params, fvp_args>>
              ELSE /\ pc' = "arch_run"
                   /\ set_env_enter(license_server)
                   /\ model_params' = params
                   /\ fvp_args' = DashC(params)
    /\ UNCHANGED <<inputs, installLocals, caches, fvpLocals, license_server, n_board,
                   configureArgs>>

\* process(), line 320: run the architectural model, the last statement of the
\* with block; set_env puts the environment back whether run_cmd returns or raises
LaunchArchRun ==
    /\ pc = "arch_run"
    /\ \E outcome \in RunCmdOutcomes(FALSE) :
        /\ log' = Append(log, Call("run_cmd",
                     <<arch_sim_binary,
                       "--plugin", arch_plugin,
                       "--print-port-number">> \o fvp_args))
        /\ pc' = IF outcome = "ok" THEN "returned" ELSE "raised"
    /\ set_env_exit
    /\ UNCHANGED <<inputs, installLocals, caches, fvpLocals, license_server, model_params,
                   n_board, fvp_args, configureArgs>>

\* VirtioRngParams for the revisions that pass the age check only
VirtioRngParamsFromMin(rev) ==
    IF rev >= min_fvp_revision
    THEN <<"board.virtio_rng.enabled=1", "board.virtio_rng.seed=0", "board.virtio_rng.generator=2">>
    ELSE <<>>

\* process(), lines 330-336: virtio-rng parameters for revisions that support it
VirtioRngParams(rev) ==
    IF rev > virtio_rng_revision
    THEN <<"board.virtio_rng.enabled=1", "board.virtio_rng.seed=0", "board.virtio_rng.generator=2">>
    ELSE <<>>

\* process(), lines 337-338
TooOld(rev) ==
    IF rev < min_fvp_revision
    THEN <<Call("fatal", <<"FVP is too old, please update to latest version">>)>>
    ELSE <<>>

\* process(), lines 322-340
LaunchNonArchParams ==
    /\ pc = "nonarch_params"
    /\ LET rev == FvpRevisionEval
           params == model_params \o <<"displayController=0">> \o VirtioRngParams(rev.value)
           old == TooOld(rev.value)
       IN  /\ log' = log \o <<Call("check_system_dependencies", <<>>)>> \o rev.calls \o old
           /\ fvp_revision' = [set |-> TRUE, value |-> rev.value]
           /\ model_params' = params
           /\ IF HasFatal(old) /\ ~pretend
              THEN pc' = "exited" /\ UNCHANGED fvp_args
              ELSE pc' = "nonarch_call" /\ fvp_args' = DashC(params)
    /\ UNCHANGED <<inputs, installLocals, docker_memory_size, fvpLocals, license_server,
                   env_license, old_environ, n_board, configureArgs>>

\* process(), lines 345-378: find the firmware, complete the arguments and call
\* execute_fvp of the install-morello-fvp project
LaunchNonArchCall ==
    /\ pc = "nonarch_call"
    /\ LET found == ensure_file_exists("MCP ROM ELF firmware", mcp_rom_bin)
                    \o ensure_file_exists("SCP ROM ELF firmware", scp_rom_bin)
                    \o ensure_file_exists("UEFI firmware", uefi_bin)
                    \o ensure_file_exists("SCP/AP firmware", scp_ap_ram_firmware_image)
                    \o ensure_file_exists("MCP firmware", mcp_ram_firmware_image)
           same_dir == /\ uefi_bin_parent = scp_ap_ram_firmware_image_parent
                       /\ scp_ap_ram_firmware_image_parent = scp_rom_bin_parent
           args == fvp_args
                   \o <<"--data", "Morello_Top.css.scp.armcortexm7ct=" \o scp_rom_bin \o "@0x0",
                        "--data", "Morello_Top.css.mcp.armcortexm7ct=" \o mcp_rom_bin \o "@0x0",
                        "-C", "css.scp.armcortexm7ct.INITVTOR=0x0",
                        "-C", "css.mcp.armcortexm7ct.INITVTOR=0x0",
                        "--data", uefi_bin \o "@0x14200000",
                        "-C", "soc.scp_qspi_loader.fname=" \o scp_ap_ram_firmware_image,
                        "-C", "soc.mcp_qspi_loader.fname=" \o mcp_ram_firmware_image,
                        "-C", "css.pl011_uart_ap.unbuffered_output=1">>
                   \o <<"-C", "css.scp.CS_Counter.use_real_time=1">>
       IN  /\ log' = log \o found
           /\ IF HasFatal(found) /\ ~pretend
              THEN pc' = "exited" /\ UNCHANGED <<fvp_args, call>>
              ELSE IF ~same_dir
              THEN pc' = "raised" /\ UNCHANGED <<fvp_args, call>>
              ELSE /\ pc' = "execute_fvp"
                   /\ fvp_args' = args
                   /\ call' = [args |-> args \o <<"--print-port-number">>,
                               disk_image_path |-> disk_image_path,
                               firmware_path |-> uefi_bin_parent,
                               x11 |-> TRUE,
                               expose_telnet_ports |-> TRUE,
                               ssh_port |-> <<ssh_port>>]
    /\ UNCHANGED <<inputs, installLocals, caches, base_cmd, socat, try_result, run_tests_pc,
                   license_server,
                   env_license, old_environ, model_params, n_board, configureArgs>>

----------------------------------------------------------------------------
(* BuildNewlibBaremetal.configure *)

triple == "mips64-qemu-elf"

\* configure(), lines 103-128.  Python joins adjacent string literals: there is
\* no comma after "--disable-newlib-io-long-double", so it and the literal after
\* the comment form one element.
Configure ==
    /\ pc = "configure"
    /\ configureArgs' = configureArgs
            \o <<"--enable-malloc-debugging",
                 "--enable-newlib-long-time_t",
                 "--enable-newlib-io-c99-formats",
                 "--enable-newlib-io-long-long",
                 "--disable-newlib-io-long-double" \o "--disable-newlib-mb",
                 "--disable-libstdcxx",
                 "--disable-newlib-io-float",
                 "--enable-newlib-global-atexit",
                 "--enable-serial-build-configure",
                 "--enable-serial-target-configure",
                 "--enable-serial-host-configure">>
            \o <<"--target=" \o triple>>
            \o <<"--disable-multilib">>
            \o <<"--with-newlib">>
    /\ log' = Append(log, Call("super.configure", configureArgs'))
    /\ pc' = "returned"
    /\ UNCHANGED <<inputs, installLocals, caches, fvpLocals, launchLocals>>

----------------------------------------------------------------------------
(* Initial states: the options and surroundings a run can start from *)

RevDelta == 1
MemDelta == 1
MaxInitArgs == 3
default_ssh_port == 12345

Around(t, d) == (t - d)..(t + d)

Revisions == Around(virtio_rng_revision, RevDelta) \cup Around(min_fvp_revision, RevDelta)

\* the rev file holds a number, or something else, or cannot be read
RevSources ==
    {[ok |-> TRUE, stdout |-> ToString(r) \o "\n"] : r \in Revisions}
    \cup {[ok |-> TRUE, stdout |-> "unknown\n"], [ok |-> FALSE, stdout |-> ""]}

MemSizes == Around(min_ram_mb * KiBPerMiB, MemDelta) \cup Around(warn_ram_mb * KiBPerMiB, MemDelta)

\* grep prints the MemTotal line, or something else, or the command fails
MemOutputs ==
    {[ok |-> TRUE, stdout |-> "MemTotal:        " \o ToString(k) \o " kB\r\n"] : k \in MemSizes}
    \cup {[ok |-> TRUE, stdout |-> ""], [ok |-> TRUE, stdout |-> "MemTotal: unknown kB\r\n"],
          [ok |-> FALSE, stdout |-> ""]}

InstallerPaths == {None, "/dl/FVP_Morello.sh", "/dl/FVP_Morello_0.11.tgz", "/dl/fvp.installer"}
\* what the archive unpacks to: nothing, the installer, the installer after
\* another file, a backup of it only, a file named just ".sh"
TdFiles == {<<>>, <<"FVP_Morello_0.11.sh">>, <<"setup.bin", "b.sh">>,
            <<"FVP_Morello.sh.bak">>, <<".sh">>}

NoCall == [args |-> <<>>, disk_image_path |-> None, firmware_path |-> None, x11 |-> FALSE,
           expose_telnet_ports |-> FALSE, ssh_port |-> <<>>]

InstallIdle ==
    /\ installer_path = None
    /\ installer_is_file = FALSE
    /\ td_files = <<>>
    /\ i_agree_to_the_contained_eula = FALSE
    /\ skip_update = FALSE
    /\ clean = FALSE

FvpIdle ==
    /\ IS_MAC = FALSE
    /\ DISPLAY = None
    /\ rev_source = [ok |-> FALSE, stdout |-> ""]
    /\ memtotal_out = [ok |-> FALSE, stdout |-> ""]
    /\ missing_file = None

LaunchIdle ==
    /\ firmware_exists = TRUE
    /\ remote_disk_image_path = None
    /\ use_architectureal_fvp = FALSE
    /\ arch_model_is_dir = TRUE
    /\ ssh_port = default_ssh_port
    /\ license_server = None
    /\ env_license = None

\* what every method starts with: nothing logged, no local set, nothing cached
Fresh ==
    /\ log = <<>>
    /\ installer_sh = None
    /\ eula_args = <<>>
    /\ fvp_revision = [set |-> FALSE, value |-> 0]
    /\ docker_memory_size = [set |-> FALSE, value |-> 0]
    /\ base_cmd = <<>>
    /\ socat = "none"
    /\ try_result = None
    /\ old_environ = None
    /\ model_params = <<>>
    /\ n_board = 0
    /\ fvp_args = <<>>

NoOutput == [ok |-> FALSE, stdout |-> ""]
Hosts == {<<FALSE, ":0">>, <<TRUE, None>>, <<TRUE, "">>, <<TRUE, ":0">>}

\* the surroundings execute_fvp depends on, drawn from the given sets
FvpSurroundings(mem_outputs, hosts) ==
    /\ rev_source \in RevSources
    /\ memtotal_out \in mem_outputs
    /\ \E host \in hosts : IS_MAC = host[1] /\ DISPLAY = host[2]

InitInstall ==
    /\ pc = "process"
    /\ Fresh
    /\ pretend \in BOOLEAN
    /\ use_docker_container \in BOOLEAN
    /\ installer_path \in InstallerPaths
    /\ installer_is_file \in (IF installer_path = None THEN {FALSE} ELSE BOOLEAN)
    \* under --pretend tar is only printed and td stays empty
    /\ td_files \in (IF pretend THEN {<<>>} ELSE TdFiles)
    /\ i_agree_to_the_contained_eula \in BOOLEAN
    /\ skip_update \in BOOLEAN
    /\ clean \in BOOLEAN
    /\ FvpIdle
    /\ LaunchIdle
    /\ call = NoCall
    /\ run_tests_pc = "none"
    /\ configureArgs = <<>>

NextInstall ==
    \/ ProcessCheck
    \/ ProcessExtract
    \/ ProcessClean
    \/ ProcessRunInstaller
    \/ ProcessDockerBuild

SpecInstall == InitInstall /\ [][NextInstall]_vars

\* execute_fvp called once with any arguments, or called by run_tests
InitFVP ==
    /\ pc = "execute_fvp"
    /\ Fresh
    /\ pretend \in BOOLEAN
    /\ use_docker_container \in BOOLEAN
    /\ InstallIdle
    /\ LaunchIdle
    /\ \/ /\ run_tests_pc = "none"
          /\ call \in [args : {<<"--cyclelimit", "1000">>},
                       disk_image_path : {None, disk_image_path},
                       firmware_path : {None, firmware_path},
                       x11 : BOOLEAN,
                       expose_telnet_ports : BOOLEAN,
                       ssh_port : {<<>>, <<default_ssh_port>>}]
       \/ /\ run_tests_pc = "first"
          /\ call = run_tests_calls[1]
    /\ FvpSurroundings(IF use_docker_container /\ call.disk_image_path # None
                       THEN MemOutputs ELSE {NoOutput},
                       IF use_docker_container /\ call.x11 THEN Hosts ELSE {<<FALSE, None>>})
    /\ missing_file \in {None, "Morello FVP plugin"}
    /\ configureArgs = <<>>

\* the steps of one call of execute_fvp
NextExecuteFvp ==
    \/ ExecuteBuildCmd
    \/ ExecuteStartSocat
    \/ ExecuteRunInTry
    \/ ExecuteFinally
    \/ ExecuteRun

NextFVP ==
    \/ NextExecuteFvp
    \/ RunTestsSecondCall

SpecFVP == InitFVP /\ [][NextFVP]_vars

ArchFiles == {"Model binary", "Morello FVP plugin", "bl1.bin firmware", "fip.bin firmware"}
NonArchFiles == {"Morello FVP plugin", "MCP ROM ELF firmware", "SCP ROM ELF firmware",
                 "UEFI firmware", "SCP/AP firmware", "MCP firmware"}

\* ARMLMD_LICENSE_FILE when cheribuild starts: unset, or set by the user
Environments == {None, "7010@old-license.example.org"}

InitLaunch ==
    /\ pc = "launch"
    /\ Fresh
    /\ pretend \in BOOLEAN
    /\ env_license \in Environments
    /\ InstallIdle
    /\ firmware_exists \in BOOLEAN
    /\ remote_disk_image_path \in {None, "", "build-server:/images/cheribsd-morello.img"}
    /\ ssh_port = default_ssh_port
    /\ use_architectureal_fvp \in BOOLEAN
    /\ IF use_architectureal_fvp
       THEN /\ license_server \in {None, "", "27000@license.example.org"}
            /\ arch_model_is_dir \in BOOLEAN
            /\ missing_file \in {None, "disk image"} \cup ArchFiles
            /\ use_docker_container = FALSE
            /\ rev_source = [ok |-> FALSE, stdout |-> ""]
            /\ memtotal_out = [ok |-> FALSE, stdout |-> ""]
            /\ IS_MAC = FALSE
            /\ DISPLAY = None
       ELSE /\ license_server = None
            /\ arch_model_is_dir = TRUE
            /\ missing_file \in {None, "disk image"} \cup NonArchFiles
            /\ use_docker_container \in BOOLEAN
            /\ FvpSurroundings(IF use_docker_container
                               THEN {NoOutput, [ok |-> TRUE, stdout |-> "MemTotal: 8167848 kB\r\n"]}
                               ELSE {NoOutput},
                               IF use_docker_container THEN {<<FALSE, None>>, <<TRUE, ":0">>}
                               ELSE {<<FALSE, None>>})
    /\ call = NoCall
    /\ run_tests_pc = "none"
    /\ configureArgs = <<>>

NextLaunch ==
    \/ LaunchCheckFirmware
    \/ LaunchDiskImage
    \/ LaunchBoardParams
    \/ LaunchArchChecks
    \/ LaunchArchEnter
    \/ LaunchArchRun
    \/ LaunchNonArchParams
    \/ LaunchNonArchCall
    \/ NextExecuteFvp

SpecLaunch == InitLaunch /\ [][NextLaunch]_vars

\* what the base classes have put into configureArgs before configure() runs
InitialArgs == {"--prefix=/sdk/baremetal", "CC=/sdk/bin/clang", "--srcdir=/src/newlib",
                "--quiet"}

RECURSIVE SeqsUpTo(_, _)
SeqsUpTo(S, n) ==
    IF n = 0 THEN {<<>>}
    ELSE SeqsUpTo(S, n - 1) \cup {Append(q, x) : q \in SeqsUpTo(S, n - 1), x \in S}

InitNewlib ==
    /\ pc = "configure"
    /\ Fresh
    /\ pretend \in BOOLEAN
    /\ use_docker_container = FALSE
    /\ InstallIdle
    /\ FvpIdle
    /\ LaunchIdle
    /\ call = NoCall
    /\ run_tests_pc = "none"
    /\ configureArgs \in SeqsUpTo(InitialArgs, MaxInitArgs)

NextNewlib == Configure

SpecNewlib == InitNewlib /\ [][NextNewlib]_vars

Init == InitInstall \/ InitFVP \/ InitLaunch \/ InitNewlib
Next == NextInstall \/ NextFVP \/ NextLaunch \/ NextNewlib
Spec == Init /\ [][Next]_vars

----------------------------------------------------------------------------
(* Properties of InstallMorelloFVP.process, checked under SpecInstall *)

IsPrefix(p, q) == Len(p) <= Len(q) /\ SubSeq(q, 1, Len(p)) = p

\* the calls that act on the host: commands run and directories deleted
Steps == SelectSeq(log, LAMBDA e : e.kind \in {"run_cmd", "clean_directory"})

\* the steps that are carried out: under --pretend run_cmd and clean_directory
\* only print what they would do (process() runs no command with
\* run_in_pretend_mode)
StepsDone == IF pretend THEN <<>> ELSE Steps

\* C2: with installer_path unset, or set but not naming a file, process()
\* reports a fatal error before anything else and then carries out no step: the
\* install directory is not deleted and neither tar, the installer nor docker
\* build is run.  With installer_path unset nothing at all follows the report;
\* without --pretend the report ends the program.
C2_NoStepAfterFatal ==
    (pc # "process" /\ (installer_path = None \/ ~installer_is_file))
        => /\ Len(log) >= 1 /\ log[1].kind = "fatal"
           /\ StepsDone = <<>>
           /\ installer_path = None => (Len(log) = 1 /\ pc \in {"returned", "exited"})
           /\ ~pretend => (Len(log) = 1 /\ pc = "exited")

\* installer_path names no file and fatal() returned (--pretend): process() went
\* on to the end, and tar, the deletion, the installer and docker build were
\* printed only
C2_Witness ==
    /\ installer_path = "/dl/FVP_Morello_0.11.tgz" /\ ~installer_is_file
    /\ pretend /\ use_docker_container /\ pc = "returned"
    /\ log[1].kind = "fatal" /\ Len(Steps) = 4 /\ StepsDone = <<>>

\* C10: in a run that passes the checks of installer_path the host steps are, in
\* this order, tar (iff the installer is a .tgz), the deletion of install_dir,
\* the installer with --destination install_dir, and docker build (iff
\* use_docker_container) with --pull iff not skip_update and --no-cache iff clean:
\* the steps taken so far are always a prefix of that list, and all of it when
\* process() returns.
C10_StepOrder ==
    LET tgz == PathSuffix(installer_path) = ".tgz"
        scripts == SelectSeq(td_files, LAMBDA n : Len(n) >= 3 /\ SubSeq(n, Len(n) - 2, Len(n)) = ".sh")
        sh == IF ~tgz THEN installer_path
              ELSE IF scripts = <<>> THEN "/tmp/td/FVP_Morello.sh" ELSE "/tmp/td/" \o scripts[1]
        eula == IF i_agree_to_the_contained_eula
                THEN <<"--i-agree-to-the-contained-eula", "--no-interactive">>
                ELSE <<"--force">>
        pull == IF skip_update THEN <<>> ELSE <<"--pull">>
        nocache == IF clean THEN <<"--no-cache">> ELSE <<>>
        expected ==
            (IF tgz THEN <<[kind |-> "run_cmd", env |-> None,
                            args |-> <<"tar", "xf", installer_path, "-C", "/tmp/td">>]>>
             ELSE <<>>)
            \o <<[kind |-> "clean_directory", env |-> None, args |-> <<"/sdk/FVP_Morello">>],
                 [kind |-> "run_cmd", env |-> None,
                  args |-> <<sh, "--destination", "/sdk/FVP_Morello">> \o eula]>>
            \o (IF use_docker_container
                THEN <<[kind |-> "run_cmd", env |-> None,
                        args |-> <<"docker", "build">> \o pull \o nocache
                                 \o <<"-t", "morello-fvp", ".">>]>>
                ELSE <<>>)
    IN  (installer_path # None /\ installer_is_file)
            => /\ IsPrefix(Steps, expected)
               /\ pc = "returned" => Steps = expected

\* a .tgz installer was installed and the container built without cache
C10_Witness ==
    /\ pc = "returned"
    /\ installer_is_file /\ PathSuffix(installer_path) = ".tgz"
    /\ use_docker_container /\ ~skip_update /\ clean
    /\ Len(Steps) = 4

----------------------------------------------------------------------------
(* Properties of InstallMorelloFVP.execute_fvp, checked under SpecFVP *)

Finished == pc \in {"returned", "raised", "exited"}

\* the calls that run the FVP model itself
IsModelCmd(e) ==
    /\ e.kind = "run_cmd"
    /\ \E i \in 1..Len(e.args) :
          e.args[i] \in {"/opt/FVP_Morello/models/Linux64_GCC-6.4/FVP_Morello",
                         "/sdk/FVP_Morello/models/Linux64_GCC-6.4/FVP_Morello"}
ModelCmds == {i \in 1..Len(log) : IsModelCmd(log[i])}

\* the calls of execute_fvp made so far, the running one last, and the model
\* commands in the order in which they were run
CallsMade == IF run_tests_pc = "second" THEN run_tests_calls ELSE <<call>>
ModelCmdSeq == SelectSeq(log, IsModelCmd)

Count(kind, first) ==
    Cardinality({i \in 1..Len(log) : log[i].kind = kind /\ log[i].args # <<>>
                                     /\ log[i].args[1] = first})

\* C1: when execute_fvp has returned, raised or exited, no socat process that it
\* started is still running: socat was started only if it has also been killed.
C1_SocatTerminated ==
    /\ Finished => socat # "running"
    /\ (Finished /\ \E i \in 1..Len(log) : log[i].kind = "popen" /\ socat # "none")
           => /\ socat = "killed"
              /\ \E i \in 1..Len(log) : log[i].kind = "socat.terminate"

\* run_cmd raised while socat was running, and socat is gone
C1_Witness ==
    pc = "raised" /\ try_result = "raised" /\ socat = "killed"

\* C6: the command execute_fvp runs.  With docker it is docker run -it --rm, then
\* the telnet ports iff expose_telnet_ports, the ssh port iff ssh_port is given,
\* the disk image mount iff disk_image_path is given, the firmware mount iff
\* firmware_path is given, the DISPLAY variable iff x11, then the container, the
\* model path in the container, the plugin arguments and the caller's arguments;
\* without docker it is the host's model path, the plugin arguments and the
\* caller's arguments.  Every call that returns has run exactly one such
\* command, also the two calls of run_tests.
C6_Command ==
    LET port(c) == IF c.ssh_port = <<>> THEN ""
                   ELSE ToString(c.ssh_port[1]) \o ":" \o ToString(c.ssh_port[1])
        options(c) ==
            (IF c.expose_telnet_ports THEN <<"-p", "5000-5007:5000-5007">> ELSE <<>>)
            \o (IF c.ssh_port # <<>> THEN <<"-p", port(c)>> ELSE <<>>)
            \o (IF c.disk_image_path # None
                THEN <<"-v", c.disk_image_path \o ":" \o c.disk_image_path>> ELSE <<>>)
            \o (IF c.firmware_path # None
                THEN <<"-v", c.firmware_path \o ":" \o c.firmware_path>> ELSE <<>>)
            \o (IF c.x11 THEN <<"-e", "DISPLAY=host.docker.internal:0">> ELSE <<>>)
        head(c) == IF use_docker_container
                   THEN <<"docker", "run", "-it", "--rm">> \o options(c)
                        \o <<"morello-fvp", "/opt/FVP_Morello/models/Linux64_GCC-6.4/FVP_Morello">>
                   ELSE <<"/sdk/FVP_Morello/models/Linux64_GCC-6.4/FVP_Morello">>
        plugins == {<<>>,
                    <<"--plugin", IF use_docker_container
                                  THEN "/opt/FVP_Morello/plugins/Linux64_GCC-6.4/MorelloPlugin.so"
                                  ELSE "/sdk/FVP_Morello/plugins/Linux64_GCC-6.4/MorelloPlugin.so">>}
    IN  /\ Len(ModelCmdSeq) <= Len(CallsMade)
        /\ \A i \in 1..Len(ModelCmdSeq) :
               \E plugin \in plugins :
                   ModelCmdSeq[i].args = head(CallsMade[i]) \o plugin \o CallsMade[i].args
        /\ pc = "returned" => Len(ModelCmdSeq) = Len(CallsMade)

\* a docker run with every option has returned
C6_Witness ==
    /\ pc = "returned" /\ use_docker_container
    /\ call.expose_telnet_ports /\ call.ssh_port # <<>> /\ call.x11
    /\ call.disk_image_path # None /\ call.firmware_path # None
    /\ ModelCmds # {}

\* C8: the plugin arguments in the command execute_fvp runs are empty iff
\* fvp_revision >= 312; for an older revision they are --plugin and the path of
\* MorelloPlugin.so, under /opt/FVP_Morello with docker (the host is not asked
\* for the file) and under install_dir otherwise, where a missing file is a
\* fatal error, once for each call of execute_fvp that gets that far.
C8_PluginArgs ==
    LET fixed == "/opt/FVP_Morello/plugins/Linux64_GCC-6.4/MorelloPlugin.so"
        host == "/sdk/FVP_Morello/plugins/Linux64_GCC-6.4/MorelloPlugin.so"
        missing == Count("fatal", "Morello FVP plugin")
        model_at(a) == CHOOSE j \in 1..Len(a) :
                           a[j] \in {"/opt/FVP_Morello/models/Linux64_GCC-6.4/FVP_Morello",
                                     "/sdk/FVP_Morello/models/Linux64_GCC-6.4/FVP_Morello"}
    IN  /\ \A i \in 1..Len(ModelCmdSeq) :
              LET a == ModelCmdSeq[i].args
                  plugin == SubSeq(a, model_at(a) + 1, Len(a) - Len(CallsMade[i].args))
              IN  /\ fvp_revision.set
                  /\ plugin = <<>> <=> fvp_revision.value >= 312
                  /\ fvp_revision.value < 312
                         => plugin = <<"--plugin", IF use_docker_container THEN fixed ELSE host>>
        /\ fvp_revision.set
               => (missing >= 1 <=> (/\ ~use_docker_container
                                     /\ fvp_revision.value < 312
                                     /\ missing_file = "Morello FVP plugin"))
        /\ missing <= Len(CallsMade)

\* revision 311 on the host: the plugin was looked for and passed to the model
C8_Witness ==
    /\ pc = "returned" /\ ~use_docker_container
    /\ fvp_revision.set /\ fvp_revision.value = 311
    /\ ModelCmds # {}

\* C9: with docker and a disk image, a container memory size of m bytes gives a
\* fatal error iff m < 4900*1024*1024, a warning and no fatal error iff
\* 4900*1024*1024 <= m < 7900*1024*1024, and neither otherwise; output that
\* holds no number gives m = 0 and so the fatal error.  (docker_memory_size.value
\* is m / 1024.)
C9_MemoryOutcome ==
    LET k == docker_memory_size.value
        fatals == Count("fatal", "Docker container has less than ")
        warnings == Count("warning", "Docker container has less than ")
    IN  (use_docker_container /\ call.disk_image_path # None /\ docker_memory_size.set)
            => /\ fatals = (IF k < 4900 * 1024 THEN 1 ELSE 0)
               /\ warnings = (IF 4900 * 1024 <= k /\ k < 7900 * 1024 THEN 1 ELSE 0)
               /\ memtotal_out.stdout \in {"", "MemTotal: unknown kB\r\n"}
                      => (k = 0 /\ fatals = 1)
               /\ \A n \in MemSizes :
                      memtotal_out.stdout = "MemTotal:        " \o ToString(n) \o " kB\r\n" => k = n

\* exactly 4900 MiB: a warning, no fatal error
C9_Witness ==
    /\ docker_memory_size.set /\ docker_memory_size.value = 4900 * 1024
    /\ Count("warning", "Docker container has less than ") = 1
    /\ pc = "returned"

----------------------------------------------------------------------------
(* Properties of LaunchFVPBase.process, checked under SpecLaunch *)

\* the calls that run a simulator: the architectural model or the Morello FVP
IsSimCmd(e) ==
    \/ IsModelCmd(e)
    \/ /\ e.kind = "run_cmd"
       /\ e.args[1] = "/usr/local/FVP_Base_RevC-Rainier/models/Linux64_GCC-6.4/FVP_Base_RevC-Rainier"
SimCmds == {i \in 1..Len(log) : IsSimCmd(log[i])}

\* the fatal errors that name the option `--option`
FatalsNaming(option) ==
    {i \in 1..Len(log) : /\ log[i].kind = "fatal"
                         /\ \E j \in 1..Len(log[i].args) : log[i].args[j] = "--" \o option}

\* C4: on both paths the simulator arguments derived from model_params are "-C",
\* p for each parameter p in order: twice as long as model_params when derived
\* (and extended only at the end afterwards), "-C" at every odd position and each
\* parameter right after its "-C"; and every parameter that add_board_params
\* added starts with "bp." with use-architectural-fvp and with "board." without.
C4_DashCArgs ==
    LET n == Len(model_params)
        prefix == IF use_architectureal_fvp THEN "bp." ELSE "board."
    IN  /\ pc \in {"arch_run", "nonarch_call"} => Len(fvp_args) = 2 * n
        /\ fvp_args # <<>>
               => /\ Len(fvp_args) >= 2 * n
                  /\ \A i \in 1..n : fvp_args[2 * i - 1] = "-C" /\ fvp_args[2 * i] = model_params[i]
        /\ model_params # <<>> => n_board > 0
        /\ \A i \in 1..n_board : StartsWith(model_params[i], prefix)
        /\ \A i \in SimCmds : \A j \in 1..n :
               \E k \in 2..Len(log[i].args) :
                   log[i].args[k] = model_params[j] /\ log[i].args[k - 1] = "-C"

\* the Morello FVP was run on the non-architectural path: every model parameter
\* follows a "-C" in its command and the board parameters start with "board."
C4_Witness ==
    /\ ~use_architectureal_fvp /\ pc = "returned" /\ SimCmds # {}
    /\ n_board > 0 /\ Len(model_params) > n_board /\ Len(fvp_args) > 2 * Len(model_params)

\* the same on the architectural path: the model was run with the arguments
\* derived, the board parameters start with "bp."
C4_WitnessArch ==
    /\ use_architectureal_fvp /\ pc = "returned" /\ SimCmds # {}
    /\ n_board > 0 /\ Len(model_params) > n_board /\ Len(fvp_args) = 2 * Len(model_params)

\* C5: process() reports a fatal error naming the option to set (firmware-path,
\* license-server, simulator-path) when it finds firmware_path missing and, with
\* use-architectural-fvp, when it finds license_server unset or the simulator
\* path to be no directory; every simulator command comes after these reports,
\* and the architectural model is run only while ARMLMD_LICENSE_FILE is set to
\* license_server.  ("Whenever" is read as: whenever process() gets to the
\* check; the simulator path is looked at after the license, so not in a run
\* that the report of a missing license has ended.)
C5_FatalNamesOption ==
    /\ [][(pc = "launch" /\ ~firmware_exists)
               => (FatalsNaming("firmware-path") # {})']_vars
    /\ [][(pc = "arch_checks" /\ use_architectureal_fvp /\ license_server \in {None, ""})
               => (FatalsNaming("license-server") # {})']_vars
    /\ [][(/\ pc = "arch_checks" /\ use_architectureal_fvp /\ ~arch_model_is_dir
           /\ (pretend \/ license_server \notin {None, ""}))
               => (FatalsNaming("simulator-path") # {})']_vars
    /\ [](\A k \in SimCmds :
              /\ \A i \in FatalsNaming("firmware-path") \cup FatalsNaming("license-server")
                          \cup FatalsNaming("simulator-path") : i < k
              /\ use_architectureal_fvp
                     => (log[k].env = license_server /\ log[k].env # None))
    /\ [](pc = "arch_run" => (env_license = license_server /\ env_license # None))

\* C7: without use-architectural-fvp, "FVP is too old" is reported iff
\* fvp_revision < 312 and the three board.virtio_rng parameters are among the
\* model parameters iff fvp_revision > 255, so the FVP is never run without
\* them unless it was reported as too old.
C7_RevisionChecks ==
    LET rng == <<"board.virtio_rng.enabled=1", "board.virtio_rng.seed=0",
                 "board.virtio_rng.generator=2">>
        has_rng == \E i \in 1..(Len(model_params) - 2) : SubSeq(model_params, i, i + 2) = rng
        any_rng == \E i \in 1..Len(model_params) : StartsWith(model_params[i], "board.virtio_rng.e")
                                                   \/ StartsWith(model_params[i], "board.virtio_rng.s")
                                                   \/ StartsWith(model_params[i], "board.virtio_rng.g")
        too_old == Count("fatal", "FVP is too old, please update to latest version")
    IN  (~use_architectureal_fvp /\ fvp_revision.set)
            => /\ too_old = (IF fvp_revision.value < 312 THEN 1 ELSE 0)
               /\ has_rng <=> fvp_revision.value > 255
               /\ any_rng <=> has_rng
               /\ \A k \in SimCmds :
                      too_old = 0 => \A j \in 1..3 :
                          \E a \in 2..Len(log[k].args) :
                              log[k].args[a] = rng[j] /\ log[k].args[a - 1] = "-C"

\* revision 312 was launched: not too old, with the virtio_rng parameters
C7_Witness ==
    /\ ~use_architectureal_fvp /\ fvp_revision.set /\ fvp_revision.value = 312
    /\ SimCmds # {} /\ pc = "returned"

----------------------------------------------------------------------------
(* Properties of BuildNewlibBaremetal.configure, checked under SpecNewlib *)

\* C3: after configure() every option is an element of configureArgs of its
\* own, "--disable-newlib-io-long-double" and "--disable-newlib-mb" among them,
\* and the list ends with the target, --disable-multilib and --with-newlib.
C3_SeparateOptions ==
    LET n == Len(configureArgs)
        Has(x) == \E i \in 1..n : configureArgs[i] = x
    IN  pc = "returned"
            => /\ Has("--disable-newlib-io-long-double")
               /\ Has("--disable-newlib-mb")
               /\ n >= 3
               /\ SubSeq(configureArgs, n - 2, n)
                      = <<"--target=mips64-qemu-elf", "--disable-multilib", "--with-newlib">>

====
